---- MODULE Spec2Model ----
(***************************************************************************)
(* Model of src/src/parser.ts: the extraction of an OpenAPI model from the *)
(* rendered NetSuite REST API browser page.                                *)
(*                                                                         *)
(* Texts are tuples of one-character strings, so that trim(), replaceAll(),*)
(* toUpperCase() and charAt()/slice() are computed, not assumed.           *)
(* An ElementHandle-or-null is a record [found, ...]; a thrown Error is a  *)
(* record [err |-> <message>, ...] that every caller propagates.           *)
(***************************************************************************)
EXTENDS Integers, Sequences, FiniteSets, TLC

(* ------------------------------------------------------------------ *)
(* Bounds of the model                                                  *)
(* ------------------------------------------------------------------ *)
MaxChildren == 4    \* child nodes of a parameter title
MaxTextLen == 1     \* characters of one child node's text

(* ------------------------------------------------------------------ *)
(* State                                                                *)
(* ------------------------------------------------------------------ *)
VARIABLES
  \* one parameter title (extractParameters, lines 99-108)
  npc,          \* "idle", "ready", "named", "thrown"
  nameEl,       \* the handle parameter.$('.prop-name .prop-title') returned
  name,         \* the value of `name` after line 108, or the thrown Error
  \* one schema definition (parseSchemaProperties)
  spc,          \* "idle", "loop", "returned", "thrown"
  properties,   \* the node list of line 242
  i,            \* the loop cursor (0-based, as in the code)
  result,       \* the property map being built
  type,         \* the local `type` of the last pass
  serr,         \* the Error thrown, if any
  \* one run of parsePageToOpenAPI
  pc,             \* "start", "endpoint", "parsePaths", "operation", "schemas", "done", "failed"
  nEndpoints,     \* endpoints.length (line 203)
  g,              \* endpoints already iterated by the loop of line 207
  endpoint,       \* the group section being parsed (its heading node)
  tagName,        \* parsePaths' tagName
  nOperations,    \* operations.length (line 12)
  operations,     \* the operation nodes the loop of line 13 has taken so far
  endpointPaths,  \* parsePaths' own `paths`, the object it returns
  paths,          \* parsePageToOpenAPI's `paths`
  schemaElements, \* the node list of line 212
  schemas,        \* parsePageToOpenAPI's `schemas`
  rerr,           \* the Error that rejected the run, if any
  returned,       \* the ParsedOpenApi the run resolved with, if any
  \* the lookups of one parseOperation call (puppeteer $, $$ and evaluate promises)
  lpc,            \* "idle", "before", "parameters", "after", "resolved", "rejected"
  mainAt,         \* the lookup parseOperation itself awaits (index in its own list)
  parameters,     \* the '.prop-row' nodes of line 95
  rowAt,          \* per row: the step of its callback whose lookups are in flight
  rowState,       \* per row: "running", "fulfilled" or "rejected"
  rowPending      \* per row: its lookups in flight

nvars == <<npc, nameEl, name>>
svars == <<spc, properties, i, result, type, serr>>
rvars == <<pc, nEndpoints, g, endpoint, tagName, nOperations, operations,
           endpointPaths, paths, schemaElements, schemas, rerr, returned>>
lvars == <<lpc, mainAt, parameters, rowAt, rowState, rowPending>>
vars == <<nvars, svars, rvars, lvars>>

(* ------------------------------------------------------------------ *)
(* Texts                                                                *)
(* ------------------------------------------------------------------ *)
NoErr == "none"
ErrElementNotFound == "Element not found"
ErrTextNotFound == "Text content not found for element"
ErrNameNotFound == "Name not found"
ErrInvalidMethod == "Invalid method"
ErrTypeError == "TypeError: Cannot read properties of undefined"

IsSpace(c) == c = " "

RECURSIVE TrimStart(_)
TrimStart(s) ==
  IF s # <<>> /\ IsSpace(Head(s)) THEN TrimStart(Tail(s)) ELSE s

RECURSIVE TrimEnd(_)
TrimEnd(s) ==
  IF s # <<>> /\ IsSpace(s[Len(s)]) THEN TrimEnd(SubSeq(s, 1, Len(s) - 1)) ELSE s

\* String.prototype.trim
Trim(s) == TrimEnd(TrimStart(s))

\* String.prototype.replaceAll(c, '')
RECURSIVE ReplaceAll(_, _)
ReplaceAll(s, c) ==
  IF s = <<>> THEN <<>>
  ELSE IF Head(s) = c THEN ReplaceAll(Tail(s), c)
  ELSE <<Head(s)>> \o ReplaceAll(Tail(s), c)

\* Array.prototype.join('') of a list of texts
RECURSIVE Join(_)
Join(ts) == IF ts = <<>> THEN <<>> ELSE Head(ts) \o Join(Tail(ts))

Null == [found |-> FALSE, text |-> <<>>]
El(t) == [found |-> TRUE, text |-> t]

\* a slip that would read a missing node as an empty text instead of throwing
TextContentLenient(el) ==
  IF ~el.found THEN [err |-> NoErr, val |-> <<>>]
  ELSE IF Trim(el.text) = <<>> THEN [err |-> ErrTextNotFound, val |-> <<>>]
  ELSE [err |-> NoErr, val |-> Trim(el.text)]

\* textContent(el): throws on a null handle and on blank text, else the trimmed text
TextContent(el) ==
  IF ~el.found THEN [err |-> ErrElementNotFound, val |-> <<>>]
  ELSE IF Trim(el.text) = <<>> THEN [err |-> ErrTextNotFound, val |-> <<>>]
  ELSE [err |-> NoErr, val |-> Trim(el.text)]

(* ------------------------------------------------------------------ *)
(* Parameter name (extractParameters, the nameEl.evaluate callback)     *)
(* ------------------------------------------------------------------ *)
TEXT_NODE == 3
ELEMENT_NODE == 1

\* the callback keeps the child nodes whose nodeType is 3
IsDirectText(c) == c.nodeType = TEXT_NODE

DirectTexts(children) ==
  LET kept == SelectSeq(children, IsDirectText)
  IN  [k \in 1..Len(kept) |-> kept[k].textContent]

FirstColonOnly(s) ==
  IF \E k \in 1..Len(s) : s[k] = ":"
  THEN LET k == CHOOSE j \in 1..Len(s) : s[j] = ":" /\ \A h \in 1..(j - 1) : s[h] # ":"
       IN  SubSeq(s, 1, k - 1) \o SubSeq(s, k + 1, Len(s))
  ELSE s

\* a slip that would use replace(':', '') where the code uses replaceAll
EvaluateNameFirstColon(children) == FirstColonOnly(Trim(Join(DirectTexts(children))))

\* c => Array.from(c.childNodes).filter(..).map(..).join('').trim().replaceAll(':', '')
EvaluateName(children) == ReplaceAll(Trim(Join(DirectTexts(children))), ":")

\* nameEl?.evaluate(...) followed by  if (!name) throw new Error('Name not found')
ExtractName(el) ==
  IF ~el.found THEN [err |-> ErrNameNotFound, val |-> <<>>]
  ELSE LET n == EvaluateName(el.children)
       IN  IF n = <<>> THEN [err |-> ErrNameNotFound, val |-> <<>>]
           ELSE [err |-> NoErr, val |-> n]

TextChars == {"a", ":", " "}
MarkupChars == {"*"}

TextsOver(chars) == UNION {[1..n -> chars] : n \in 0..MaxTextLen}

ChildNodes ==
  [nodeType : {TEXT_NODE}, textContent : TextsOver(TextChars)]
    \cup [nodeType : {ELEMENT_NODE}, textContent : TextsOver(MarkupChars) \ {<<>>}]

NoTitle == [found |-> FALSE, children |-> <<>>]

Title(children) == [found |-> TRUE, children |-> children]


NoName == [err |-> NoErr, val |-> <<>>]

NameResolved ==
  /\ npc = "ready"
  /\ ExtractName(nameEl).err = NoErr
  /\ name' = ExtractName(nameEl)
  /\ npc' = "named"
  /\ UNCHANGED <<nameEl, svars, rvars, lvars>>

NameThrows ==
  /\ npc = "ready"
  /\ ExtractName(nameEl).err # NoErr
  /\ name' = ExtractName(nameEl)
  /\ npc' = "thrown"
  /\ UNCHANGED <<nameEl, svars, rvars, lvars>>

NameNext == NameResolved \/ NameThrows


(* ------------------------------------------------------------------ *)
(* Schema properties (parseSchemaProperties)                            *)
(* ------------------------------------------------------------------ *)
MaxProperties == 3   \* <dt> nodes under one schema definition

\* el.className is a space separated list of class tokens
INNER_SCHEMA == "json-inner-schema"
ARRAY_ITEMS == "json-schema-array-items"
SCHEMA_PROPERTIES == "json-schema-properties"

\* el.className === 'json-inner-schema': the attribute is that token and nothing else
ClassNameIs(el, token) == el.className = <<token>>

\* className.includes(marker); no token of the vocabulary contains another one
ClassNameIncludes(el, token) == \E k \in 1..Len(el.className) : el.className[k] = token

T_id == <<"i", "d">>
T_string == <<"s", "t", "r", "i", "n", "g">>
T_array == <<"a", "r", "r", "a", "y">>
T_object == <<"o", "b", "j", "e", "c", "t">>
T_boolean == <<"b", "o", "o", "l", "e", "a", "n">>
RecordRef == "#/components/schemas/RecordRef"

\* result['id'] = { type: 'object', $ref: '#/components/schemas/RecordRef' }
SyntheticId == [type |-> T_object, ref |-> RecordRef]

\* result[name] = { description, schema: { type: 'string', description } }
PropertyEntry(description) ==
  [description |-> description, schema |-> [type |-> T_string, description |-> description]]

\* obj[key] = value
Put(obj, key, value) ==
  [k \in DOMAIN obj \cup {key} |-> IF k = key THEN value ELSE obj[k]]

\* a slip that would look at the node under the cursor instead of the next one
HasInnerSchemaAtCursor(props, at) ==
  at < Len(props) - 1 /\ ClassNameIs(props[at + 1], INNER_SCHEMA)

\* i < properties.length - 1 && properties[i+1].className === 'json-inner-schema'
\* (`at` is the code's 0-based i; TLA+ sequences are 1-based)
HasInnerSchema(props, at) ==
  at < Len(props) - 1 /\ ClassNameIs(props[at + 2], INNER_SCHEMA)

\* lines 312-320: the type chosen from the consumed sibling's class name
InnerSchemaType(innerSchema) ==
  IF ClassNameIncludes(innerSchema, ARRAY_ITEMS) THEN T_array
  ELSE IF ClassNameIncludes(innerSchema, SCHEMA_PROPERTIES) THEN T_object
  ELSE T_string

\* a slip that would emit nothing for a term that consumed its next sibling
BodySkipsPaired(props, at, res) ==
  LET property == props[at + 1]
      inner == HasInnerSchema(props, at)
      at2 == IF inner THEN at + 1 ELSE at
      ty == IF inner THEN [err |-> NoErr, val |-> InnerSchemaType(props[at + 2])]
            ELSE TextContent(property.typeEl)
      nm == TextContent(property.nameEl)
      ds == TextContent(property.descEl)
      failed == IF ty.err # NoErr THEN ty.err
                ELSE IF nm.err # NoErr THEN nm.err
                ELSE ds.err
  IN  IF failed # NoErr
      THEN [err |-> failed, i |-> at2, result |-> res, type |-> ty.val]
      ELSE [err |-> NoErr, i |-> at2 + 1,
            result |-> IF inner THEN res ELSE Put(res, nm.val, PropertyEntry(ds.val)),
            type |-> ty.val]

\* one pass of the loop body, lines 251-340, and the loop's i++ when it completes
Body(props, at, res) ==
  LET property == props[at + 1]
      inner == HasInnerSchema(props, at)
      at2 == IF inner THEN at + 1 ELSE at            \* line 310: i++
      ty == IF inner THEN [err |-> NoErr, val |-> InnerSchemaType(props[at + 2])]
            ELSE TextContent(property.typeEl)        \* line 322
      nm == TextContent(property.nameEl)             \* line 325
      ds == TextContent(property.descEl)             \* line 327
      failed == IF ty.err # NoErr THEN ty.err
                ELSE IF nm.err # NoErr THEN nm.err
                ELSE ds.err
  IN  IF failed # NoErr
      THEN [err |-> failed, i |-> at2, result |-> res, type |-> ty.val]
      ELSE [err |-> NoErr, i |-> at2 + 1,
            result |-> Put(res, nm.val, PropertyEntry(ds.val)),
            type |-> ty.val]

\* the whole function: seed `id`, run the loop to the end or to the first throw
RECURSIVE Loop(_, _, _)
Loop(props, at, res) ==
  IF at >= Len(props) THEN [err |-> NoErr, val |-> res]
  ELSE LET b == Body(props, at, res)
       IN  IF b.err # NoErr THEN [err |-> b.err, val |-> res]
           ELSE Loop(props, b.i, b.result)

EmptyObject == [k \in {} |-> {}]

ParseSchemaProperties(props) == Loop(props, 0, Put(EmptyObject, T_id, SyntheticId))

ClassNames ==
  { <<>>, <<INNER_SCHEMA>>, <<INNER_SCHEMA, ARRAY_ITEMS>>, <<INNER_SCHEMA, SCHEMA_PROPERTIES>> }

\* the <dt> nodes the selector of line 242 can return
DtNodes ==
  [className : ClassNames,
   typeEl : {Null, El(T_boolean)},
   nameEl : {Null, El(<<"a">>), El(<<" ", "b">>), El(T_id)},
   descEl : {El(<<"d">>)},
   required : {FALSE}]
  \cup
  [className : {<<>>}, typeEl : {El(T_string)}, nameEl : {El(<<"a">>)},
   descEl : {Null, El(<<" ">>)}, required : {TRUE}]



LoopPass ==
  /\ spc = "loop"
  /\ i < Len(properties)
  /\ Body(properties, i, result).err = NoErr
  /\ LET b == Body(properties, i, result)
     IN  i' = b.i /\ result' = b.result /\ type' = b.type
  /\ UNCHANGED <<spc, properties, serr, nvars, rvars, lvars>>

LoopThrows ==
  /\ spc = "loop"
  /\ i < Len(properties)
  /\ Body(properties, i, result).err # NoErr
  /\ LET b == Body(properties, i, result)
     IN  i' = b.i /\ type' = b.type /\ serr' = b.err
  /\ spc' = "thrown"
  /\ UNCHANGED <<properties, result, nvars, rvars, lvars>>

\* line 343
LoopReturns ==
  /\ spc = "loop"
  /\ i >= Len(properties)
  /\ spc' = "returned"
  /\ UNCHANGED <<properties, i, result, type, serr, nvars, rvars, lvars>>

ScanNext == LoopPass \/ LoopThrows \/ LoopReturns

(* ------------------------------------------------------------------ *)
(* Operations (extractMethod, capitalize, extractSchema, parseOperation) *)
(* ------------------------------------------------------------------ *)
LowerCase == <<"a", "b", "c", "d", "e", "f", "g", "h", "i", "j", "k", "l", "m",
               "n", "o", "p", "q", "r", "s", "t", "u", "v", "w", "x", "y", "z">>
UpperCase == <<"A", "B", "C", "D", "E", "F", "G", "H", "I", "J", "K", "L", "M",
               "N", "O", "P", "Q", "R", "S", "T", "U", "V", "W", "X", "Y", "Z">>

UpperChar(c) ==
  IF \E n \in 1..Len(LowerCase) : LowerCase[n] = c
  THEN UpperCase[CHOOSE n \in 1..Len(LowerCase) : LowerCase[n] = c]
  ELSE c

\* String.prototype.toUpperCase
ToUpperCase(s) == [n \in 1..Len(s) |-> UpperChar(s[n])]

\* OpenAPIV3.HttpMethods of openapi-types: GET = 'get', PUT = 'put', ...
HttpMethods ==
  { <<"GET", <<"G", "E", "T">>, "get">>,
    <<"PUT", <<"P", "U", "T">>, "put">>,
    <<"POST", <<"P", "O", "S", "T">>, "post">>,
    <<"DELETE", <<"D", "E", "L", "E", "T", "E">>, "delete">>,
    <<"OPTIONS", <<"O", "P", "T", "I", "O", "N", "S">>, "options">>,
    <<"HEAD", <<"H", "E", "A", "D">>, "head">>,
    <<"PATCH", <<"P", "A", "T", "C", "H">>, "patch">>,
    <<"TRACE", <<"T", "R", "A", "C", "E">>, "trace">> }

\* extractMethod: the enum member named by the upper-cased text, or a throw
ExtractMethod(text) ==
  LET key == ToUpperCase(text)
  IN  IF \E m \in HttpMethods : m[2] = key
      THEN [err |-> NoErr, val |-> (CHOOSE m \in HttpMethods : m[2] = key)[3]]
      ELSE [err |-> ErrInvalidMethod, val |-> ""]

\* capitalize: str.charAt(0).toUpperCase() + str.slice(1)
Capitalize(str) ==
  IF str = <<>> THEN <<>> ELSE <<UpperChar(Head(str))>> \o Tail(str)

NoRef == [found |-> FALSE, href |-> <<>>]
Ref(h) == [found |-> TRUE, href |-> h]

\* extractSchema / extractErrorSchema: null without the link or without its href
ExtractSchema(schemaRef) ==
  IF ~schemaRef.found THEN [isNull |-> TRUE, ref |-> <<>>]
  ELSE IF schemaRef.href = <<>> THEN [isNull |-> TRUE, ref |-> <<>>]
  ELSE [isNull |-> FALSE, ref |-> schemaRef.href]

\* lines 51-76: '200' iff a response schema, 'default' iff an error schema
Responses(responseSchema, errorSchema) ==
  [c \in (IF responseSchema.isNull THEN {} ELSE {"200"})
           \cup (IF errorSchema.isNull THEN {} ELSE {"default"}) |->
     IF c = "200"
     THEN [description |-> "Successful response", schema |-> responseSchema.ref]
     ELSE [description |-> "Error response", schema |-> errorSchema.ref]]

\* String.prototype.replace('in', ''): the first occurrence only
ReplaceFirstIn(s) ==
  IF \E n \in 1..(Len(s) - 1) : s[n] = "i" /\ s[n + 1] = "n"
  THEN LET n == CHOOSE h \in 1..(Len(s) - 1) :
                  /\ s[h] = "i" /\ s[h + 1] = "n"
                  /\ \A e \in 1..(h - 1) : ~(s[e] = "i" /\ s[e + 1] = "n")
       IN  SubSeq(s, 1, n - 1) \o SubSeq(s, n + 2, Len(s))
  ELSE s

\* the callback of line 98 on one '.prop-row': the first throw, else the parameter
ExtractParameter(row) ==
  LET nm == ExtractName(row.titleEl)
      description == TextContent(row.descEl)
      ty == TextContent(row.typeEl)
      enums == [n \in 1..Len(row.enumItems) |-> TextContent(row.enumItems[n])]
      enumErrs == {enums[n].err : n \in 1..Len(enums)} \ {NoErr}
      format == TextContent(row.formatEl)
      default == TextContent(row.defaultEl)
      subtitle == TextContent(row.subtitleEl)
      value ==
        [name |-> nm.val,
         description |-> description.val,
         required |-> row.required,
         in |-> Trim(ReplaceFirstIn(subtitle.val)),
         schema |->
           [type |-> ty.val,
            items |-> ty.val = T_array,
            enum |-> [n \in 1..Len(enums) |-> enums[n].val],
            format |-> IF row.formatEl.found THEN format.val ELSE <<>>,
            default |-> IF row.defaultEl.found THEN default.val ELSE <<>>]]
      failed ==
        IF nm.err # NoErr THEN {nm.err}
        ELSE IF description.err # NoErr THEN {description.err}
        ELSE IF ty.err # NoErr THEN {ty.err}
        ELSE IF enumErrs # {} THEN enumErrs
        ELSE IF row.formatEl.found /\ format.err # NoErr THEN {format.err}
        ELSE IF row.defaultEl.found /\ default.err # NoErr THEN {default.err}
        ELSE IF subtitle.err # NoErr THEN {subtitle.err}
        ELSE {}
  IN  [errs |-> failed, val |-> value]

\* extractParameters: Promise.all keeps document order and rejects with the first
\* rejection in time, which can be any failing row's
ExtractParameters(rows) ==
  [errs |-> UNION {ExtractParameter(rows[n]).errs : n \in 1..Len(rows)},
   val |-> [n \in 1..Len(rows) |-> ExtractParameter(rows[n]).val]]

\* parseOperation: the Errors it can throw (none when it returns) and what it returns
ParseOperation(operation, tag) ==
  LET methodText == TextContent(operation.methodEl)
      method == ExtractMethod(methodText.val)
      path == TextContent(operation.pathEl)
      summary == TextContent(operation.summaryEl)
      params == ExtractParameters(operation.rows)
      requestSchema == ExtractSchema(operation.requestRef)
      responseSchema == ExtractSchema(operation.responsesRef)   \* '.swagger-responses'
      errorSchema == ExtractSchema(operation.responsesRef)      \* the same selector
      failed ==
        IF methodText.err # NoErr THEN {methodText.err}
        ELSE IF method.err # NoErr THEN {method.err}
        ELSE IF path.err # NoErr THEN {path.err}
        ELSE IF summary.err # NoErr THEN {summary.err}
        ELSE params.errs
  IN  [errs |-> failed,
       path |-> path.val,
       method |-> method.val,
       data |-> [responses |-> Responses(responseSchema, errorSchema),
                 summary |-> summary.val,
                 parameters |-> params.val,
                 requestBody |-> requestSchema,
                 tags |-> <<Capitalize(tag)>>]]

(* ------------------------------------------------------------------ *)
(* Path groups and the run (parsePaths, parseSchemas, parsePageToOpenAPI) *)
(* ------------------------------------------------------------------ *)
\* The page answers each query when it is made: what a selector returns is chosen
\* at the step that runs it, and the part of the page not yet queried is left open.
MaxEndpoints == 2     \* group sections of the page
MaxOperations == 3    \* operation nodes of one group section
MaxSchemas == 2       \* schema definition nodes of the page

\* a slip that would replace the path's method map instead of adding to it
InsertReplacingPath(map, path, method, data) ==
  Put(map, path, Put(EmptyObject, method, data))

\* (paths[path] ||= {})[method] = data
Insert(map, path, method, data) ==
  Put(map, path,
      Put(IF path \in DOMAIN map THEN map[path] ELSE EmptyObject, method, data))

\* Object.assign(target, source): own keys of source copied, value by value
ObjectAssign(target, source) ==
  [key \in DOMAIN target \cup DOMAIN source |->
     IF key \in DOMAIN source THEN source[key] ELSE target[key]]

\* parseSchemas on one definition node: the Error thrown, or the entry it stores
ParseSchemas(schemaElement) ==
  LET title == TextContent(schemaElement.titleEl)
      props == ParseSchemaProperties(schemaElement.dts)
  IN  [err |-> IF title.err # NoErr THEN title.err ELSE props.err,
       title |-> title.val,
       schema |-> [type |-> T_object, properties |-> props.val]]

GoodRow ==
  [titleEl |-> Title(<<[nodeType |-> TEXT_NODE, textContent |-> <<"q", ":">>]>>),
   descEl |-> El(<<"d">>), required |-> TRUE, typeEl |-> El(T_string),
   enumItems |-> <<El(<<"x">>), El(<<"y">>)>>, formatEl |-> Null, defaultEl |-> Null,
   subtitleEl |-> El(<<"i", "n", " ", "q">>)]
UnnamedRow == [GoodRow EXCEPT !.titleEl = NoTitle]

Op(m, p, s) ==
  [methodEl |-> m, pathEl |-> p, summaryEl |-> s, rows |-> <<>>,
   requestRef |-> NoRef, responsesRef |-> NoRef]

Get == El(<<"g", "e", "t">>)
PathA == El(<<"/", "a">>)

\* the operation nodes the selector of line 12 can return
OperationNodes ==
  { Op(Get, PathA, El(<<"s">>)),
    Op(Get, PathA, El(<<"t", " ">>)),
    Op(El(<<"P", "o", "s", "t">>), PathA, El(<<"s">>)),
    Op(Get, El(<<" ", "/", "b">>), El(<<"s">>)),
    [Op(El(<<"p", "u", "t">>), PathA, El(<<"s">>)) EXCEPT
       !.rows = <<GoodRow>>, !.requestRef = Ref(<<"#", "q">>),
       !.responsesRef = Ref(<<"#", "r">>)],
    [Op(El(<<"p", "u", "t">>), PathA, El(<<"s">>)) EXCEPT
       !.rows = <<GoodRow, UnnamedRow>>, !.responsesRef = Ref(<<>>)],
    Op(Get, PathA, Null),
    Op(Get, PathA, El(<<" ">>)),
    Op(Null, PathA, El(<<"s">>)),
    Op(El(<<"x">>), PathA, El(<<"s">>)),
    Op(Get, Null, El(<<"s">>)) }

HeadingEls == {Null, El(<<"a", "c">>), El(<<" ", "C", "u">>)}

NoEndpoint == [heading |-> Null]

GoodTerm ==
  [className |-> <<>>, typeEl |-> El(T_boolean), nameEl |-> El(<<"a">>),
   descEl |-> El(<<"d">>), required |-> FALSE]

\* the definition nodes the selector of line 212 can return
SchemaNodes ==
  [titleEl : {Null, El(<<"A">>), El(<<"B", " ">>)},
   dts : {<<>>, <<GoodTerm>>, <<[GoodTerm EXCEPT !.descEl = Null]>>}]

NoModel == [resolved |-> FALSE, paths |-> EmptyObject, schemas |-> EmptyObject]

\* line 203: page.$$('div#docs article div.ns-support-ga')
QueryEndpoints ==
  /\ pc = "start"
  /\ nEndpoints' \in 0..MaxEndpoints
  /\ pc' = "endpoint"
  /\ UNCHANGED <<g, endpoint, tagName, nOperations, operations,
                 endpointPaths, paths, schemaElements,
                 schemas, rerr, returned, nvars, svars, lvars>>

\* line 207: the loop takes the next group section; what the page holds there
NextEndpoint ==
  /\ pc = "endpoint"
  /\ g < nEndpoints
  /\ \E h \in HeadingEls : endpoint' = [heading |-> h]
  /\ pc' = "parsePaths"
  /\ endpointPaths' = EmptyObject       \* the default value of parsePaths' `paths`
  /\ UNCHANGED <<nEndpoints, g, tagName, nOperations, operations, paths,
                 schemaElements, schemas, rerr, returned, nvars, svars, lvars>>

\* lines 9-12 with a heading whose text textContent returns; the return of line 11 is
\* never taken, since textContent gives a non-empty text or throws
ParsePathsHeading ==
  /\ pc = "parsePaths"
  /\ TextContent(endpoint.heading).err = NoErr
  /\ tagName' = TextContent(endpoint.heading).val
  /\ nOperations' \in 0..MaxOperations
  /\ pc' = "operation"
  /\ UNCHANGED <<nEndpoints, g, endpoint, operations, endpointPaths, paths,
                 schemaElements, schemas, rerr, returned, nvars, svars, lvars>>

\* line 9 when textContent throws: the Error leaves parsePaths and the run
ParsePathsThrows ==
  /\ pc = "parsePaths"
  /\ TextContent(endpoint.heading).err # NoErr
  /\ rerr' = TextContent(endpoint.heading).err
  /\ pc' = "failed"
  /\ UNCHANGED <<nEndpoints, g, endpoint, tagName, nOperations, operations,
                 endpointPaths, paths, schemaElements, schemas, returned, nvars, svars, lvars>>

\* lines 13-15 for the next operation node, when parseOperation returns
OperationInserted ==
  /\ pc = "operation"
  /\ Len(operations) < nOperations
  /\ \E operation \in OperationNodes :
       LET parsed == ParseOperation(operation, tagName)
       IN  /\ parsed.errs = {}
           /\ operations' = Append(operations, operation)
           /\ endpointPaths' = Insert(endpointPaths, parsed.path, parsed.method, parsed.data)
  /\ UNCHANGED <<pc, nEndpoints, g, endpoint, tagName, nOperations, paths,
                 schemaElements, schemas, rerr, returned, nvars, svars, lvars>>

\* lines 13-14 for the next operation node, when parseOperation throws
OperationThrows ==
  /\ pc = "operation"
  /\ Len(operations) < nOperations
  /\ \E operation \in OperationNodes :
       /\ operations' = Append(operations, operation)
       /\ \E e \in ParseOperation(operation, tagName).errs : rerr' = e
  /\ pc' = "failed"
  /\ UNCHANGED <<nEndpoints, g, endpoint, tagName, nOperations, endpointPaths, paths,
                 schemaElements, schemas, returned, nvars, svars, lvars>>

\* line 18, then line 209 in the caller
ParsePathsReturns ==
  /\ pc = "operation"
  /\ Len(operations) >= nOperations
  /\ paths' = ObjectAssign(paths, endpointPaths)
  /\ g' = g + 1
  /\ pc' = "endpoint"
  /\ endpoint' = NoEndpoint /\ tagName' = <<>> /\ nOperations' = 0
  /\ operations' = <<>> /\ endpointPaths' = EmptyObject
  /\ UNCHANGED <<nEndpoints, schemaElements, schemas, rerr, returned, nvars, svars, lvars>>

\* line 212: page.$$('div[id^="definition-"]')
QuerySchemaElements ==
  /\ pc = "endpoint"
  /\ g >= nEndpoints
  /\ \E n \in 0..MaxSchemas : schemaElements' \in [1..n -> SchemaNodes]
  /\ pc' = "schemas"
  /\ UNCHANGED <<nEndpoints, g, endpoint, tagName, nOperations, operations,
                 endpointPaths, paths, schemas,
                 rerr, returned, nvars, svars, lvars>>

\* lines 214-229: parseSchemas on schemaElements[0] alone, then the return
SchemasParsed ==
  /\ pc = "schemas"
  /\ schemaElements # <<>>
  /\ LET parsed == ParseSchemas(schemaElements[1])
     IN  /\ parsed.err = NoErr
         /\ schemas' = Put(schemas, parsed.title, parsed.schema)
  /\ returned' = [resolved |-> TRUE, paths |-> paths, schemas |-> schemas']
  /\ pc' = "done"
  /\ UNCHANGED <<nEndpoints, g, endpoint, tagName, nOperations, operations,
                 endpointPaths, paths,
                 schemaElements, rerr, nvars, svars, lvars>>

\* line 222 when parseSchemas throws; schemaElements[0] is undefined on an empty list
\* and schemaElement.$ is then a TypeError
SchemasThrow ==
  /\ pc = "schemas"
  /\ rerr' = IF schemaElements = <<>> THEN ErrTypeError
             ELSE ParseSchemas(schemaElements[1]).err
  /\ rerr' # NoErr
  /\ pc' = "failed"
  /\ UNCHANGED <<nEndpoints, g, endpoint, tagName, nOperations, operations,
                 endpointPaths, paths,
                 schemaElements, schemas, returned, nvars, svars, lvars>>

Next ==
  \/ QueryEndpoints
  \/ NextEndpoint
  \/ ParsePathsHeading
  \/ ParsePathsThrows
  \/ OperationInserted
  \/ OperationThrows
  \/ ParsePathsReturns
  \/ QuerySchemaElements
  \/ SchemasParsed
  \/ SchemasThrow

(* ------------------------------------------------------------------ *)
(* Lookups of one operation (parseOperation, extractParameters)         *)
(* ------------------------------------------------------------------ *)
MaxRows == 2   \* '.prop-row' nodes of one operation

\* a lookup in flight: the call and, for an enum item, its place in the list
Lookup(call) == <<call, 0>>

\* what one awaited leaf costs: the $ lookup and, on a node, the evaluate of textContent;
\* `bad` holds the lookup whose answer makes the callback throw
Leaf(el, selector) ==
  IF ~el.found
  THEN [steps |-> <<{Lookup("$ " \o selector)}>>, bad |-> {Lookup("$ " \o selector)}]
  ELSE [steps |-> <<{Lookup("$ " \o selector)}, {Lookup("evaluate " \o selector)}>>,
        bad |-> IF Trim(el.text) = <<>> THEN {Lookup("evaluate " \o selector)} ELSE {}]

\* a leaf read only when its node exists (lines 137-145)
OptionalLeaf(el, selector) ==
  IF ~el.found THEN [steps |-> <<{Lookup("$ " \o selector)}>>, bad |-> {}]
  ELSE Leaf(el, selector)

Single(call) == [steps |-> <<{Lookup(call)}>>, bad |-> {}]

\* lines 99-108: the title, then its evaluate; no name throws
NameLookups(titleEl) ==
  IF ~titleEl.found
  THEN [steps |-> <<{Lookup("$ .prop-name .prop-title")}>>,
        bad |-> {Lookup("$ .prop-name .prop-title")}]
  ELSE [steps |-> <<{Lookup("$ .prop-name .prop-title")}, {Lookup("evaluate name")}>>,
        bad |-> IF ExtractName(titleEl).err # NoErr THEN {Lookup("evaluate name")} ELSE {}]

\* lines 128-135: the list, then Promise.all over one evaluate per item
EnumLookups(items) ==
  IF items = <<>> THEN Single("$$ .json-property-enum-item")
  ELSE [steps |-> <<{Lookup("$$ .json-property-enum-item")},
                    {<<"evaluate enum item", e>> : e \in 1..Len(items)}>>,
        bad |-> {<<"evaluate enum item", e>> : e \in
                   {n \in 1..Len(items) : TextContent(items[n]).err # NoErr}}]

\* awaits in sequence: what follows a throw is never issued
Then(a, b) == IF a.bad # {} THEN a ELSE [steps |-> a.steps \o b.steps, bad |-> b.bad]

\* the awaits of the callback of line 98, in program order
RowScript(row) ==
  Then(NameLookups(row.titleEl),
  Then(Leaf(row.descEl, ".prop-value p"),
  Then(Single("$ .json-property-required"),
  Then(Leaf(row.typeEl, ".prop-type .json-property-type"),
  Then(EnumLookups(row.enumItems),
  Then(OptionalLeaf(row.formatEl, ".prop-format"),
  Then(OptionalLeaf(row.defaultEl, ".json-property-default-value"),
  Then(Leaf(row.subtitleEl, ".prop-subtitle"),
       Single("$ .json-schema-ref")))))))))

\* parseOperation's own awaits before extractParameters' Promise.all (lines 43-46, 95)
MainBefore ==
  << Lookup("$ .operation-method"), Lookup("evaluate .operation-method"),
     Lookup("$ .operation-path"), Lookup("evaluate .operation-path"),
     Lookup("$ .operation-summary"), Lookup("evaluate .operation-summary"),
     Lookup("$$ .swagger-request-params .prop-row") >>

\* and after it (lines 48-50), each link with an href
MainAfter ==
  << Lookup("$ .swagger-request-body .json-schema-ref"), Lookup("evaluate href request"),
     Lookup("$ .swagger-responses .json-schema-ref"), Lookup("evaluate href response"),
     Lookup("$ .swagger-responses .json-schema-ref"), Lookup("evaluate href error") >>

\* a slip that would go on as soon as one callback has finished
OneFulfilled(states) == \E r \in DOMAIN states : states[r] = "fulfilled"

\* Promise.all fulfils when every promise has
AllFulfilled(states) == \A r \in DOMAIN states : states[r] = "fulfilled"

\* the lookups in flight
MainPending ==
  IF lpc = "before" THEN {MainBefore[mainAt]}
  ELSE IF lpc = "after" THEN {MainAfter[mainAt]}
  ELSE {}

\* owner 0 is parseOperation itself, owner r the callback of row r
Outstanding ==
  {<<0, l>> : l \in MainPending}
    \cup UNION {{<<r, l>> : l \in rowPending[r]} : r \in DOMAIN parameters}

BlankRow == [GoodRow EXCEPT !.enumItems = <<>>, !.formatEl = El(<<"d", "t">>),
                            !.defaultEl = El(<<" ">>)]
RowNodes ==
  { GoodRow, UnnamedRow, BlankRow,
    [GoodRow EXCEPT !.enumItems = <<El(<<"x">>), El(<<" ">>)>>],
    [GoodRow EXCEPT !.enumItems = <<>>, !.formatEl = El(<<"d", "t">>)] }

\* a lookup of parseOperation before the rows is answered; the next one is issued, and
\* the answer to the $$ of line 95 starts every row's callback up to its first await
MainBeforeAnswered ==
  /\ lpc = "before"
  /\ IF mainAt < Len(MainBefore)
     THEN /\ mainAt' = mainAt + 1
          /\ UNCHANGED <<lpc, rowAt, rowState, rowPending>>
     ELSE /\ mainAt' = 1
          /\ lpc' = IF parameters = <<>> THEN "after" ELSE "parameters"
          /\ rowAt' = [r \in DOMAIN parameters |-> 1]
          /\ rowState' = [r \in DOMAIN parameters |-> "running"]
          /\ rowPending' = [r \in DOMAIN parameters |-> RowScript(parameters[r]).steps[1]]
  /\ UNCHANGED <<parameters, nvars, svars, rvars>>

\* what a row's callback does when one of its lookups is answered
RowAfter(r, l) ==
  LET script == RowScript(parameters[r])
      left == rowPending[r] \ {l}
      last == rowAt[r] = Len(script.steps)
  IN  IF rowState[r] # "running" THEN [at |-> rowAt[r], state |-> rowState[r], pending |-> left]
      ELSE IF last /\ l \in script.bad
      THEN [at |-> rowAt[r], state |-> "rejected", pending |-> left]
      ELSE IF left # {} THEN [at |-> rowAt[r], state |-> "running", pending |-> left]
      ELSE IF last THEN [at |-> rowAt[r], state |-> "fulfilled", pending |-> {}]
      ELSE [at |-> rowAt[r] + 1, state |-> "running", pending |-> script.steps[rowAt[r] + 1]]

\* a lookup of a row is answered: its callback goes on to its next await, returns or
\* throws; Promise.all (line 97) then settles parseOperation's await, if it does
RowAnswered ==
  /\ lpc \in {"parameters", "rejected"}
  /\ \E r \in DOMAIN parameters : \E l \in rowPending[r] :
       LET after == RowAfter(r, l)
       IN  /\ rowAt' = [rowAt EXCEPT ![r] = after.at]
           /\ rowState' = [rowState EXCEPT ![r] = after.state]
           /\ rowPending' = [rowPending EXCEPT ![r] = after.pending]
           /\ lpc' = IF lpc = "rejected" \/ after.state = "rejected" THEN "rejected"
                     ELSE IF AllFulfilled(rowState') THEN "after"
                     ELSE "parameters"
  /\ UNCHANGED <<mainAt, parameters, nvars, svars, rvars>>

\* a lookup of parseOperation after the rows is answered
MainAfterAnswered ==
  /\ lpc = "after"
  /\ IF mainAt < Len(MainAfter)
     THEN mainAt' = mainAt + 1 /\ UNCHANGED lpc
     ELSE mainAt' = mainAt /\ lpc' = "resolved"
  /\ UNCHANGED <<parameters, rowAt, rowState, rowPending, nvars, svars, rvars>>

LookupNext == MainBeforeAnswered \/ RowAnswered \/ MainAfterAnswered

(* ------------------------------------------------------------------ *)
(* Specifications                                                       *)
(* ------------------------------------------------------------------ *)
\* one parameter title, any child nodes
InitName ==
  /\ npc = "ready"
  /\ \/ nameEl = NoTitle
     \/ \E n \in 0..MaxChildren : \E cs \in [1..n -> ChildNodes] : nameEl = Title(cs)
  /\ name = NoName
  /\ spc = "idle" /\ properties = <<>> /\ i = 0
  /\ result = EmptyObject /\ type = <<>> /\ serr = NoErr
  /\ pc = "idle" /\ nEndpoints = 0 /\ g = 0 /\ endpoint = NoEndpoint /\ tagName = <<>>
  /\ nOperations = 0 /\ operations = <<>> /\ endpointPaths = EmptyObject /\ paths = EmptyObject
  /\ schemaElements = <<>> /\ schemas = EmptyObject /\ rerr = NoErr
  /\ returned = NoModel
  /\ lpc = "idle" /\ mainAt = 1 /\ parameters = <<>> /\ rowAt = <<>>
  /\ rowState = <<>> /\ rowPending = <<>>

SpecName == InitName /\ [][NameNext]_vars

\* one schema definition after lines 242-248, any <dt> list
InitScan ==
  /\ spc = "loop"
  /\ \E n \in 0..MaxProperties : properties \in [1..n -> DtNodes]
  /\ i = 0
  /\ result = Put(EmptyObject, T_id, SyntheticId)
  /\ type = <<>>
  /\ serr = NoErr
  /\ npc = "idle" /\ nameEl = NoTitle /\ name = NoName
  /\ pc = "idle" /\ nEndpoints = 0 /\ g = 0 /\ endpoint = NoEndpoint /\ tagName = <<>>
  /\ nOperations = 0 /\ operations = <<>> /\ endpointPaths = EmptyObject /\ paths = EmptyObject
  /\ schemaElements = <<>> /\ schemas = EmptyObject /\ rerr = NoErr
  /\ returned = NoModel
  /\ lpc = "idle" /\ mainAt = 1 /\ parameters = <<>> /\ rowAt = <<>>
  /\ rowState = <<>> /\ rowPending = <<>>

SpecScan == InitScan /\ [][ScanNext]_vars

\* one run of parsePageToOpenAPI on a page that answers each query when it is made
Init ==
  /\ pc = "start" /\ nEndpoints = 0 /\ g = 0 /\ endpoint = NoEndpoint /\ tagName = <<>>
  /\ nOperations = 0 /\ operations = <<>> /\ endpointPaths = EmptyObject /\ paths = EmptyObject
  /\ schemaElements = <<>> /\ schemas = EmptyObject /\ rerr = NoErr
  /\ returned = NoModel
  /\ lpc = "idle" /\ mainAt = 1 /\ parameters = <<>> /\ rowAt = <<>>
  /\ rowState = <<>> /\ rowPending = <<>>
  /\ npc = "idle" /\ nameEl = NoTitle /\ name = NoName
  /\ spc = "idle" /\ properties = <<>> /\ i = 0
  /\ result = EmptyObject /\ type = <<>> /\ serr = NoErr

Spec == Init /\ [][Next]_vars

\* one parseOperation call on a well-formed operation node with any parameter rows
InitLookups ==
  /\ lpc = "before" /\ mainAt = 1
  /\ \E n \in 0..MaxRows : parameters \in [1..n -> RowNodes]
  /\ rowAt = [r \in DOMAIN parameters |-> 0]
  /\ rowState = [r \in DOMAIN parameters |-> "running"]
  /\ rowPending = [r \in DOMAIN parameters |-> {}]
  /\ pc = "idle" /\ nEndpoints = 0 /\ g = 0 /\ endpoint = NoEndpoint /\ tagName = <<>>
  /\ nOperations = 0 /\ operations = <<>> /\ endpointPaths = EmptyObject /\ paths = EmptyObject
  /\ schemaElements = <<>> /\ schemas = EmptyObject /\ rerr = NoErr
  /\ returned = NoModel
  /\ npc = "idle" /\ nameEl = NoTitle /\ name = NoName
  /\ spc = "idle" /\ properties = <<>> /\ i = 0
  /\ result = EmptyObject /\ type = <<>> /\ serr = NoErr

SpecLookups == InitLookups /\ [][LookupNext]_vars

(* ------------------------------------------------------------------ *)
(* Claims about the run                                                 *)
(* ------------------------------------------------------------------ *)
PathOf(operation) == Trim(operation.pathEl.text)
MethodOf(operation) == ExtractMethod(Trim(operation.methodEl.text)).val
DataOf(operation) == ParseOperation(operation, tagName).data

\* the operation nodes taken so far that carry the pair (p, m)
WithPair(p, m) ==
  {n \in 1..Len(operations) : PathOf(operations[n]) = p /\ MethodOf(operations[n]) = m}

Max(S) == CHOOSE n \in S : \A h \in S : h <= n

(* C1: while parsePaths runs over the operation nodes of one group in       *)
(* document order, its path map holds, for every (path, method) pair, the   *)
(* data of the last operation node taken with that pair and nothing else;   *)
(* operations of one path with different methods are all kept.              *)
C1_LastWinsPerPair ==
  pc = "operation" =>
    LET ps == {PathOf(operations[n]) : n \in 1..Len(operations)}
        ms == {MethodOf(operations[n]) : n \in 1..Len(operations)}
    IN  /\ DOMAIN endpointPaths = ps
        /\ \A p \in ps :
             /\ DOMAIN endpointPaths[p] = {m \in ms : WithPair(p, m) # {}}
             /\ \A m \in DOMAIN endpointPaths[p] :
                  endpointPaths[p][m] = DataOf(operations[Max(WithPair(p, m))])

\* C1: a pair taken twice with different data, and a second method on the same path
C1_Witness ==
  /\ pc = "operation"
  /\ Len(operations) = 3
  /\ PathOf(operations[1]) = PathOf(operations[2])
  /\ PathOf(operations[1]) = PathOf(operations[3])
  /\ MethodOf(operations[1]) # MethodOf(operations[2])
  /\ MethodOf(operations[1]) = MethodOf(operations[3])
  /\ DataOf(operations[1]) # DataOf(operations[3])

(* C4: the run parses every schema definition node of the page, so that the *)
(* returned schemas map has one entry per schema name found, and is the     *)
(* empty map when the page has no such node.                                *)
C4_EverySchemaParsed ==
  /\ pc = "done" =>
       DOMAIN returned.schemas =
         {Trim(schemaElements[n].titleEl.text) : n \in 1..Len(schemaElements)}
  /\ (pc \in {"done", "failed"} /\ g >= nEndpoints /\ schemaElements = <<>>) =>
       (returned.resolved /\ returned.schemas = EmptyObject)

MethodsAt(map, p) == IF p \in DOMAIN map THEN DOMAIN map[p] ELSE {}

(* C5: merging a group's path map into the run's keeps, under a path both   *)
(* have, every method of both; only a colliding (path, method) pair is      *)
(* overwritten, by the later group.                                         *)
C5_MergeKeepsMethods ==
  [][(pc = "operation" /\ pc' = "endpoint") =>
       \A p \in DOMAIN paths \cup DOMAIN endpointPaths :
         /\ p \in DOMAIN paths'
         /\ DOMAIN paths'[p] = MethodsAt(paths, p) \cup MethodsAt(endpointPaths, p)
         /\ \A m \in MethodsAt(endpointPaths, p) : paths'[p][m] = endpointPaths[p][m]
         /\ \A m \in MethodsAt(paths, p) \ MethodsAt(endpointPaths, p) :
              paths'[p][m] = paths[p][m]]_vars

(* C6: a group section without a heading node gives an empty path map, no   *)
(* error is raised and the run goes on to the next group section.           *)
C6_MissingHeadingTolerated ==
  [][(pc = "parsePaths" /\ ~endpoint.heading.found) =>
       (pc' = "endpoint" /\ g' = g + 1 /\ paths' = paths /\ rerr' = NoErr)]_vars

WellFormedButSummary(operation) ==
  /\ TextContent(operation.methodEl).err = NoErr
  /\ ExtractMethod(TextContent(operation.methodEl).val).err = NoErr
  /\ TextContent(operation.pathEl).err = NoErr
  /\ ~operation.summaryEl.found

(* C7: an operation node with a method and a path but no summary node makes *)
(* the run fail with 'Element not found': nothing is inserted for that      *)
(* operation, and no model is returned then or later.                       *)
C7_MissingSummaryAborts ==
  /\ [][(pc = "operation" /\ Len(operations') = Len(operations) + 1
          /\ WellFormedButSummary(operations'[Len(operations')])) =>
         /\ pc' = "failed"
         /\ rerr' = ErrElementNotFound
         /\ endpointPaths' = endpointPaths
         /\ paths' = paths
         /\ returned' = NoModel]_vars
  /\ [][pc = "failed" => (pc' = "failed" /\ returned' = NoModel)]_vars

\* C7: the run failed on the second operation of a later group, with entries already made
C7_Witness ==
  /\ pc = "failed"
  /\ rerr = ErrElementNotFound
  /\ Len(operations) = 2
  /\ WellFormedButSummary(operations[2])
  /\ PathOf(operations[2]) \in DOMAIN endpointPaths
  /\ MethodOf(operations[2]) \notin DOMAIN endpointPaths[PathOf(operations[2])]
  /\ paths # EmptyObject
  /\ returned = NoModel

(* ------------------------------------------------------------------ *)
(* Claims about the lookups                                             *)
(* ------------------------------------------------------------------ *)
Started(r) == rowAt[r] >= 1
Finished(r) == rowState[r] # "running" /\ rowPending[r] = {}

(* C9 (as written): lookups never interleave: at most one lookup is         *)
(* outstanding at any time, and lookups are issued in document order, those *)
(* of the parameter rows and enum items of one operation included (a row    *)
(* issues its lookups only after every row before it has finished).         *)
C9_OneLookupAtATime ==
  /\ Cardinality(Outstanding) <= 1
  /\ \A r \in DOMAIN parameters : \A h \in DOMAIN parameters :
       (r < h /\ Started(h)) => Finished(r)

EnumWidth(r) == IF Len(parameters[r].enumItems) > 1 THEN Len(parameters[r].enumItems) ELSE 1

(* C9 (amended): parseOperation's own lookups never interleave: before and  *)
(* after extractParameters exactly one lookup is outstanding and no row has *)
(* any. Inside extractParameters the callbacks of the parameter rows run    *)
(* concurrently under Promise.all: every row has at most one lookup         *)
(* outstanding, or at most one per enum item while its enum items are read, *)
(* so several lookups can be outstanding at once and rows are not served in *)
(* document order; parseOperation goes on only when every row has finished. *)
C9_FanOutPerRow ==
  /\ \A r \in DOMAIN parameters : Cardinality(rowPending[r]) <= EnumWidth(r)
  /\ lpc = "before" => (Cardinality(Outstanding) = 1 /\ \A r \in DOMAIN parameters : ~Started(r))
  /\ lpc = "after" =>
       (Cardinality(Outstanding) = 1 /\ \A r \in DOMAIN parameters : Finished(r))
  /\ lpc = "resolved" => Outstanding = {}
  /\ lpc = "parameters" =>
       \A r \in DOMAIN parameters :
         rowState[r] = "running" => Cardinality(rowPending[r]) >= 1

\* C9: two rows with lookups in flight together, one of them reading two enum items
C9_Witness ==
  /\ lpc = "parameters"
  /\ Len(parameters) = 2
  /\ Cardinality(rowPending[1]) = 1
  /\ Cardinality(rowPending[2]) = 2
  /\ rowAt[2] > rowAt[1]
  /\ Cardinality(Outstanding) = 3

(* ------------------------------------------------------------------ *)
(* Claims about parseSchemaProperties                                   *)
(* ------------------------------------------------------------------ *)
\* the sibling the lookahead of line 307 takes for a continuation
IsContinuation(node) == node.className = <<INNER_SCHEMA>>

\* the 0-based positions the cursor stands on at the start of a pass
RECURSIVE CursorPositions(_, _)
CursorPositions(props, at) ==
  IF at >= Len(props) THEN {}
  ELSE {at} \cup CursorPositions(props,
          IF at + 2 <= Len(props) /\ IsContinuation(props[at + 2]) THEN at + 2 ELSE at + 1)

ConsumedNames(props) ==
  {Trim(props[p + 1].nameEl.text) : p \in CursorPositions(props, 0)}

(* C2 (as written): when parseSchemaProperties returns, the size of the     *)
(* property map is 1 + the number of property-terms the scan consumed.      *)
C2_SizeIsOnePlusTerms ==
  spc = "returned" =>
    Cardinality(DOMAIN result) = 1 + Cardinality(CursorPositions(properties, 0))

(* C2 (amended): when parseSchemaProperties returns, the keys of the map    *)
(* are `id` and the names of the property-terms the scan consumed, one key  *)
(* per DISTINCT name: the size is at most 1 + the number of terms consumed, *)
(* and equals it exactly when those names are pairwise distinct and none of *)
(* them is `id`.                                                            *)
C2_SizeIsDistinctNames ==
  LET pos == CursorPositions(properties, 0)
      names == ConsumedNames(properties)
  IN  spc = "returned" =>
        /\ DOMAIN result = {T_id} \cup names
        /\ Cardinality(DOMAIN result) <= 1 + Cardinality(pos)
        /\ (Cardinality(DOMAIN result) = 1 + Cardinality(pos))
             <=> (T_id \notin names /\ Cardinality(names) = Cardinality(pos))

\* C2: a returned scan of three nodes, two terms consumed, one of them a repeated name
C2_Witness ==
  /\ spc = "returned"
  /\ Cardinality(CursorPositions(properties, 0)) = 2
  /\ Len(properties) = 3
  /\ Cardinality(DOMAIN result) = 2

CarriesInnerSchema(node) == \E k \in 1..Len(node.className) : node.className[k] = INNER_SCHEMA

ClaimedType(props, at) ==
  IF at + 2 <= Len(props) /\ CarriesInnerSchema(props[at + 2])
  THEN LET c == props[at + 2].className
       IN  IF \E k \in 1..Len(c) : c[k] = ARRAY_ITEMS THEN T_array
           ELSE IF \E k \in 1..Len(c) : c[k] = SCHEMA_PROPERTIES THEN T_object
           ELSE T_string
  ELSE Trim(props[at + 1].typeEl.text)

(* C3: a property-term followed by a continuation node is emitted with the  *)
(* type `array` when the continuation carries the array-items marker,       *)
(* `object` when it carries the properties marker and `string` otherwise; a *)
(* property-term with no continuation is emitted with the type read from    *)
(* its own type sub-node.                                                   *)
C3_EmittedTypeFollowsShape ==
  [][(spc = "loop" /\ spc' = "loop" /\ i' > i) =>
       result'[Trim(properties[i + 1].nameEl.text)].schema.type = ClaimedType(properties, i)]_vars

StripTrailingColon(s) ==
  IF s # <<>> /\ s[Len(s)] = ":" THEN SubSeq(s, 1, Len(s) - 1) ELSE s

NotColon(c) == c # ":"

RECURSIVE TextOfKind(_, _)
TextOfKind(children, kind) ==
  IF children = <<>> THEN <<>>
  ELSE (IF Head(children).nodeType = kind THEN Head(children).textContent ELSE <<>>)
         \o TextOfKind(Tail(children), kind)

(* C8 (as written in the specification): the name is the direct text with   *)
(* surrounding whitespace and ONE trailing colon removed, every other       *)
(* character, a colon that is not the trailing one included, being kept.    *)
C8_OnlyTrailingColon ==
  npc = "named" =>
    name.val = StripTrailingColon(Trim(TextOfKind(nameEl.children, TEXT_NODE)))

(* C8 (amended): the name is the concatenation of the title's direct text   *)
(* nodes, nested element text excluded, with the surrounding whitespace     *)
(* removed first and then EVERY colon removed; all other characters stay in *)
(* order, and a missing title or an empty result throws 'Name not found'.   *)
C8_AllColonsRemoved ==
  LET direct == Trim(TextOfKind(nameEl.children, TEXT_NODE))
      kept == SelectSeq(direct, NotColon)
  IN  /\ npc = "named" =>
           /\ name.err = NoErr
           /\ name.val = kept
           /\ name.val # <<>>
           /\ \A k \in 1..Len(name.val) : name.val[k] # ":" /\ name.val[k] \notin MarkupChars
      /\ npc = "thrown" =>
           /\ name.err = ErrNameNotFound
           /\ ~nameEl.found \/ kept = <<>>

\* C8: a title with nested markup, an inner colon and a trailing colon
C8_Witness ==
  /\ npc = "named"
  /\ \E k \in 1..Len(nameEl.children) : nameEl.children[k].nodeType = ELEMENT_NODE
  /\ LET direct == Trim(TextOfKind(nameEl.children, TEXT_NODE))
     IN  /\ Len(direct) >= 3
         /\ direct[Len(direct)] = ":"
         /\ \E k \in 1..(Len(direct) - 1) : direct[k] = ":"

====
